---------------------------- MODULE Spec2Model ----------------------------
(***************************************************************************)
(* The native vibrator controller of frameworks/base                       *)
(* (services/core/jni/com_android_server_vibrator_VibratorController.cpp)  *)
(* as a state machine: one native wrapper bound to one vibrator, the       *)
(* facade operations of the JNI method table, the completion callbacks     *)
(* handed to the vibrator HAL, and the native finalizer.                   *)
(*                                                                         *)
(* The HAL controller (vibratorservice/VibratorHalController.h) and the    *)
(* driver behind it are not part of this source tree.  The retry           *)
(* dispatcher is modelled from the design document (section 4.2) and the   *)
(* driver is an environment: every call draws a driver script, K           *)
(* transient failures followed by the answer the driver gives once it is   *)
(* reached.  The actuator behind the driver is not a variable: DriverStep  *)
(* gives the effect of a HAL function on any actuator state.               *)
(*                                                                         *)
(* libs/hwui/Mesh.h is a second, independent state machine (MeshSpec): one *)
(* Mesh, its MeshUniformBuilder and the SkData objects they hold.          *)
(***************************************************************************)
EXTENDS Integers, Sequences, FiniteSets, TLC

\* ------------------------------------------------------------------ bounds

\* A driver script fails transiently K times, K in 0..MaxTransient.
MaxTransient == 2
\* Longest primitive sequence handed to performComposedEffect.
MaxPrimitives == 1

\* --------------------------------------------------------------- constants

\* Retry policy bound of the dispatcher: the number of retries after the
\* first attempt (design section 4.2, "retries fn up to a fixed bound").
MAX_RETRIES == 1

\* The null native pointer and the pointer nativeInit returns.
NullPtr == 0
WrapperPtr == 1

\* vibrator::Capabilities::NONE
CapabilitiesNone == 0

\* A vibrator id read through a dangling pointer whose memory was reused.
Garbage == -1

\* A jfloat: not-a-number or a value.
NaN == [isNaN |-> TRUE, v |-> 0]
Float(x) == [isNaN |-> FALSE, v |-> x]

\* A Java int array reference: null or an array.
JNull == [isNull |-> TRUE, elems |-> <<>>]
JIntArray(s) == [isNull |-> FALSE, elems |-> s]

\* Correlation tokens (vibrationId): token A and token B.
Tokens == {1, 2}

\* ------------------------------------------------------------- HalResult

\* vibrator::HalResult<T>: ok with a value, unsupported, or failed.
HalOk(v) == [tag |-> "ok", value |-> v]
HalUnsupported == [tag |-> "unsupported", value |-> 0]
HalFailed == [tag |-> "failed", value |-> 0]
\* A failed result the dispatcher classifies as transient (driver gone).
HalTransient == [tag |-> "transient", value |-> 0]

isOk(r) == r.tag = "ok"
isUnsupported(r) == r.tag = "unsupported"

\* HalResult<T>::valueOr
valueOr(r, default) == IF isOk(r) THEN r.value ELSE default

\* ------------------------------------------------- the device (environment)

\* Vibrator ids a caller may ask for; the manager knows the ids in
\* DOMAIN Device, any other id has no backing driver.
VibratorIds == {1, 2, 3, 4}

\* vibrator::Info of each driver the manager can hand out (mHal->getInfo()).
\* 1: a legacy driver reporting only capability bits; 2: a driver reporting
\* everything; 3: a driver whose capability query failed and which reports
\* a Q-factor but no resonant frequency.
Device ==
    (1 :> [capabilities |-> HalOk(2), supportedEffects |-> HalUnsupported,
           supportedPrimitives |-> HalUnsupported,
           resonantFrequency |-> HalUnsupported, qFactor |-> HalUnsupported])
 @@ (2 :> [capabilities |-> HalOk(39), supportedEffects |-> HalOk(<<0, 2>>),
           supportedPrimitives |-> HalOk(<<1>>),
           resonantFrequency |-> HalOk(Float(150)),
           qFactor |-> HalOk(Float(12))])
 @@ (3 :> [capabilities |-> HalFailed, supportedEffects |-> HalOk(<<5>>),
           supportedPrimitives |-> HalFailed,
           resonantFrequency |-> HalFailed, qFactor |-> HalOk(Float(12))])

\* Arguments the caller passes.  Effect, strength and always-on id are jlong
\* arguments cast to 32-bit values; every value drawn here fits 32 bits, where
\* the cast keeps the value.
Durations == {300, 500}
Effects == {0, 5}
Strengths == {0, 2}
\* Amplitudes in tenths: 0, 1.0 and 1.5.
Amplitudes == {0, 10, 15}
AlwaysOnSlots == {1}
Primitives ==
    { [primitive |-> 1, scale |-> 10, delayMs |-> 0],
      [primitive |-> 7, scale |-> 5, delayMs |-> 20] }
Compositions ==
    UNION { [1..n -> Primitives] : n \in 0..MaxPrimitives }

\* Durations a driver reports for a predefined effect.
EffectDurations == {0, 40}
\* Duration of one primitive, as the driver accounts for it.
PrimitiveDuration == 10

Range(f) == { f[i] : i \in DOMAIN f }

RECURSIVE ComposedDuration(_)
ComposedDuration(effects) ==
    IF effects = <<>> THEN 0
    ELSE PrimitiveDuration + Head(effects).delayMs + ComposedDuration(Tail(effects))

\* What the driver answers to an operation once the call reaches it.
DriverAnswers(op, arg, info) ==
    CASE op = "performEffect" ->
            IF ~isOk(info.supportedEffects)
            THEN { HalOk(d) : d \in EffectDurations } \cup {HalUnsupported, HalFailed}
            ELSE IF arg[1] \in Range(info.supportedEffects.value)
                 THEN { HalOk(d) : d \in EffectDurations } \cup {HalFailed}
                 ELSE {HalUnsupported}
      [] op = "performComposedEffect" ->
            IF isOk(info.supportedPrimitives)
               /\ \A i \in DOMAIN arg :
                      arg[i].primitive \in Range(info.supportedPrimitives.value)
            THEN {HalOk(ComposedDuration(arg)), HalFailed}
            ELSE {HalUnsupported}
      [] OTHER -> {HalOk(0), HalUnsupported, HalFailed}

\* A driver script: the driver is gone for the first k attempts of the call
\* and gives `answer` to every later one.
Scripts(op, arg, info) ==
    [k : 0..MaxTransient, answer : DriverAnswers(op, arg, info)]

\* The outcome of the i-th invocation of the HAL function under a script.
Attempt(script, i) == IF i <= script.k THEN HalTransient ELSE script.answer

\* The actuator behind the driver: vibrating or not, the amplitude in
\* tenths, the external-control mode and the always-on slots that are bound.
\* It is the driver's state; the controller keeps no copy of it.
ActuatorStates ==
    [on : BOOLEAN, amplitude : Amplitudes, externalControl : BOOLEAN,
     alwaysOn : SUBSET AlwaysOnSlots]

\* The actuator after the HAL function fn(arg) ended with `result`, started
\* from actuator state a: a function that is not ok changed nothing, and
\* ping changes nothing.
DriverStep(a, fn, arg, result) ==
    IF ~isOk(result) THEN a
    ELSE CASE fn \in {"on", "performEffect", "performComposedEffect"} ->
                 [a EXCEPT !.on = TRUE]
           [] fn = "off" -> [a EXCEPT !.on = FALSE]
           [] fn = "setAmplitude" -> [a EXCEPT !.amplitude = arg]
           [] fn = "setExternalControl" -> [a EXCEPT !.externalControl = arg]
           [] fn = "alwaysOnEnable" ->
                 [a EXCEPT !.alwaysOn = a.alwaysOn \cup {arg[1]}]
           [] fn = "alwaysOnDisable" ->
                 [a EXCEPT !.alwaysOn = a.alwaysOn \ {arg}]
           [] OTHER -> a

\* ------------------------------------------------------------------- state

VARIABLES
    proc,          \* "running", "fatal: ..." after a fatal log, "aborted"
                   \* after a crash
    wrapper,       \* the VibratorControllerWrapper behind WrapperPtr
    callbacks,     \* tokens whose completion callback the driver holds
    issued,        \* tokens passed to on/performEffect/performComposedEffect
    notification,  \* the last onComplete(vibratorId, vibrationId) delivered
    lastCall       \* the last facade call: its arguments and what it did

\* The controller's variables.
ctlVars == <<proc, wrapper, callbacks, issued, notification, lastCall>>

\* libs/hwui/Mesh.h: one Mesh with its MeshUniformBuilder, in the rendering
\* process.
VARIABLES
    meshProc,      \* "running", or "aborted" after a fatal log or a trap
    mIsDirty,      \* Mesh::mIsDirty
    mGenerationId, \* Mesh::mGenerationId
    mMesh,         \* the SkData the SkMesh in Mesh::mMesh holds, or NoBuffer
    fUniforms,     \* the SkData MeshUniformBuilder::fUniforms points to
    heap,          \* contents of each SkData, Freed when nothing holds it
    updatedSinceDirty, \* history: updateSkMesh ran since construction or
                   \* the last markDirty
    meshCall       \* the last Mesh or MeshUniformBuilder call

meshVars ==
    <<meshProc, mIsDirty, mGenerationId, mMesh, fUniforms, heap,
      updatedSinceDirty, meshCall>>

vars == <<ctlVars, meshVars>>

NoWrapper == [state |-> "none", mVibratorId |-> 0, halInit |-> FALSE]
NoNotification == [id |-> 0, token |-> 0]
NoScript == [k |-> 0, answer |-> HalFailed]
NoResult == [tag |-> "none", value |-> 0]

\* The record of a call that returned at the null check.
NullCall(op, token, arg, ret) ==
    [op |-> op, ptr |-> NullPtr, token |-> token, arg |-> arg,
     script |-> NoScript, trace |-> <<>>, reconnects |-> 0,
     result |-> NoResult, callback |-> FALSE, ret |-> ret, prevOn |-> 0,
     prevOff |-> FALSE, fn |-> "none"]

\* The record of a call dispatched through halCall with outcome r: op is
\* the function name given to halCall, fn the HAL function the dispatched
\* lambda invokes.
HalCallRecord(op, token, arg, script, r, callback, ret) ==
    [op |-> op, ptr |-> WrapperPtr, token |-> token, arg |-> arg,
     script |-> script, trace |-> r.trace, reconnects |-> r.reconnects,
     result |-> r.result, callback |-> callback, ret |-> ret, prevOn |-> 0,
     prevOff |-> FALSE, fn |-> op]

\* The controller before vibratorNativeInit.
CtlInit ==
    /\ proc = "running"
    /\ wrapper = NoWrapper
    /\ callbacks = {}
    /\ issued = {}
    /\ notification = NoNotification
    /\ lastCall = NullCall("none", 0, 0, 0)

\* The driver info behind the live wrapper's mHal.
HalInfo == Device[wrapper.mVibratorId]

\* Pointers a caller can pass: null always, the wrapper while it is alive.
Ptrs == {NullPtr} \cup (IF wrapper.state = "live" THEN {WrapperPtr} ELSE {})

\* Whether the call just before this one was a successful off.
PrevOff ==
    lastCall.op = "off" /\ lastCall.ptr = WrapperPtr /\ isOk(lastCall.result)

\* The token of the call just before this one if that was a successful on,
\* else 0.
PrevOn ==
    IF lastCall.op = "on" /\ lastCall.ptr = WrapperPtr /\ isOk(lastCall.result)
    THEN lastCall.token ELSE 0

\* ------------------------------------------------------ retry dispatcher

\* HalController::doWithRetry: invoke the HAL function; while it fails
\* transiently and retries are left, reconnect and invoke it again.
RECURSIVE doWithRetries(_, _, _)
doWithRetries(script, i, trace) ==
    LET r == Attempt(script, i) IN
    IF r.tag = "transient" /\ i <= MAX_RETRIES
    THEN doWithRetries(script, i + 1, Append(trace, r.tag))
    ELSE [result |-> IF r.tag = "transient" THEN HalFailed ELSE r,
          trace |-> Append(trace, r.tag), reconnects |-> i - 1]

doWithRetry(script) == doWithRetries(script, 1, <<>>)

\* One invocation of the HAL function, no retry.
halCall_NoRetry(script) ==
    LET r == Attempt(script, 1) IN
    [result |-> IF r.tag = "transient" THEN HalFailed ELSE r,
     trace |-> <<r.tag>>, reconnects |-> 0]

\* VibratorControllerWrapper::halCall
halCall(script) == doWithRetry(script)

\* --------------------------------------------------- construction, teardown

findVibrator_NoManagerCheck(vibratorId, managerUp) ==
    IF vibratorId \in DOMAIN Device THEN "hal" ELSE "nullptr"

\* findVibrator: the manager's vibrator for the id, or nullptr.
findVibrator(vibratorId, managerUp) ==
    IF managerUp /\ vibratorId \in DOMAIN Device THEN "hal" ELSE "nullptr"

\* vibratorNativeInit: construct the wrapper (fatal when no HAL is found or
\* the global reference cannot be made), initialise the HAL, return the
\* pointer.
vibratorNativeInit(vibratorId, managerUp, listenerOk) ==
    /\ proc = "running"
    /\ wrapper.state = "none"
    /\ IF findVibrator(vibratorId, managerUp) = "nullptr" \/ ~listenerOk
       THEN /\ proc' = IF findVibrator(vibratorId, managerUp) = "nullptr"
                       THEN "fatal: no HAL" ELSE "fatal: no listener"
            /\ UNCHANGED <<wrapper, lastCall>>
       ELSE /\ wrapper' = [state |-> "live", mVibratorId |-> vibratorId,
                           halInit |-> TRUE]
            /\ lastCall' = [NullCall("nativeInit", 0, vibratorId, WrapperPtr)
                               EXCEPT !.ptr = WrapperPtr]
            /\ UNCHANGED proc
    /\ UNCHANGED <<callbacks, issued, notification>>

\* destroyNativeWrapper: the native finalizer deletes the wrapper.  The
\* callbacks the driver still holds keep their pointer to it.
destroyNativeWrapper ==
    /\ proc = "running"
    /\ wrapper.state = "live"
    /\ wrapper' = [wrapper EXCEPT !.state = "deleted"]
    /\ lastCall' = [NullCall("destroyNativeWrapper", 0, 0, "void")
                       EXCEPT !.ptr = WrapperPtr]
    /\ UNCHANGED <<proc, callbacks, issued, notification>>

\* ------------------------------------------------------ completion callback

\* The closure createCallback returns, run by the driver or a timer thread:
\* onComplete(mVibratorId, vibrationId) on mCallbackListener, both read
\* through the captured wrapper pointer.  After the wrapper is deleted the
\* reads are undefined: the process may crash, or the call goes out with
\* the stale id or with whatever the memory now holds.
createCallbackRun(vibrationId) ==
    /\ proc = "running"
    /\ vibrationId \in callbacks
    /\ callbacks' = callbacks \ {vibrationId}
    /\ \/ /\ wrapper.state = "live"
          /\ notification' = [id |-> wrapper.mVibratorId, token |-> vibrationId]
          /\ UNCHANGED proc
       \/ /\ wrapper.state = "deleted"
          /\ \E id \in {wrapper.mVibratorId, Garbage} :
                 notification' = [id |-> id, token |-> vibrationId]
          /\ UNCHANGED proc
       \/ /\ wrapper.state = "deleted"
          /\ proc' = "aborted"
          /\ UNCHANGED notification
    /\ UNCHANGED <<wrapper, issued, lastCall>>

\* ------------------------------------------------------- facade operations

vibratorOnReturn_ValueOnOk(result, timeoutMs) ==
    IF isOk(result) THEN result.value ELSE IF isUnsupported(result) THEN 0 ELSE -1

\* result.isOk() ? timeoutMs : (result.isUnsupported() ? 0 : -1)
vibratorOnReturn(result, timeoutMs) ==
    IF isOk(result) THEN timeoutMs ELSE IF isUnsupported(result) THEN 0 ELSE -1

vibratorPerformEffectReturn_Inverted(result) ==
    IF ~isOk(result) THEN result.value ELSE IF isUnsupported(result) THEN 0 ELSE -1

\* result.isOk() ? result.value().count() : (result.isUnsupported() ? 0 : -1)
vibratorPerformEffectReturn(result) ==
    IF isOk(result) THEN result.value ELSE IF isUnsupported(result) THEN 0 ELSE -1

vibratorPerformComposedEffectReturn_NoUnsupported(result) ==
    IF isOk(result) THEN result.value ELSE -1

\* result.isOk() ? result.value().count() : (result.isUnsupported() ? 0 : -1)
vibratorPerformComposedEffectReturn(result) ==
    IF isOk(result) THEN result.value ELSE IF isUnsupported(result) THEN 0 ELSE -1

\* A call that only dispatches a HAL function and returns nothing.
VoidCall(op, ptr, arg) ==
    /\ proc = "running"
    /\ IF ptr = NullPtr
       THEN lastCall' = NullCall(op, 0, arg, "void")
       ELSE \E script \in Scripts(op, arg, HalInfo) :
                lastCall' = [HalCallRecord(op, 0, arg, script, halCall(script),
                                           FALSE, "void")
                                EXCEPT !.prevOff = (op = "off" /\ PrevOff)]
    /\ UNCHANGED <<proc, wrapper, callbacks, issued, notification>>

\* The value a call with a completion callback returns for its HAL result.
TimedReturn(op, result, arg) ==
    CASE op = "on" -> vibratorOnReturn(result, arg)
      [] op = "performEffect" -> vibratorPerformEffectReturn(result)
      [] op = "performComposedEffect" ->
             vibratorPerformComposedEffectReturn(result)

\* A call that creates a completion callback, passes it to the HAL function
\* and returns a duration, or -1 at the null check.
TimedCall(op, ptr, vibrationId, arg) ==
    /\ proc = "running"
    /\ IF ptr = NullPtr
       THEN /\ lastCall' = NullCall(op, vibrationId, arg, -1)
            /\ UNCHANGED <<callbacks, issued>>
       ELSE \E script \in Scripts(op, arg, HalInfo) :
                LET r == halCall(script) IN
                /\ lastCall' = [HalCallRecord(op, vibrationId, arg, script, r,
                                              TRUE, TimedReturn(op, r.result, arg))
                                   EXCEPT !.prevOn = IF op = "on" THEN PrevOn ELSE 0]
                /\ issued' = issued \cup {vibrationId}
                /\ callbacks' = IF isOk(r.result)
                                THEN callbacks \cup {vibrationId}
                                ELSE callbacks
    /\ UNCHANGED <<proc, wrapper, notification>>

vibratorIsAvailable_TrueOnNull(ptr) ==
    /\ proc = "running"
    /\ IF ptr = NullPtr
       THEN lastCall' = NullCall("ping", 0, 0, TRUE)
       ELSE \E script \in Scripts("ping", 0, HalInfo) :
                LET r == halCall(script) IN
                lastCall' = HalCallRecord("ping", 0, 0, script, r, FALSE,
                                          isOk(r.result))
    /\ UNCHANGED <<proc, wrapper, callbacks, issued, notification>>

vibratorIsAvailable_ProbesWithOff(ptr) ==
    /\ proc = "running"
    /\ IF ptr = NullPtr
       THEN lastCall' = NullCall("ping", 0, 0, FALSE)
       ELSE \E script \in Scripts("off", 0, HalInfo) :
                LET r == halCall(script) IN
                lastCall' = [HalCallRecord("ping", 0, 0, script, r, FALSE,
                                           isOk(r.result))
                                EXCEPT !.fn = "off"]
    /\ UNCHANGED <<proc, wrapper, callbacks, issued, notification>>

\* vibratorIsAvailable: JNI_FALSE at the null check, else whether ping is ok.
vibratorIsAvailable(ptr) ==
    /\ proc = "running"
    /\ IF ptr = NullPtr
       THEN lastCall' = NullCall("ping", 0, 0, FALSE)
       ELSE \E script \in Scripts("ping", 0, HalInfo) :
                LET r == halCall(script) IN
                lastCall' = HalCallRecord("ping", 0, 0, script, r, FALSE,
                                          isOk(r.result))
    /\ UNCHANGED <<proc, wrapper, callbacks, issued, notification>>

vibratorOn(ptr, timeoutMs, vibrationId) ==
    TimedCall("on", ptr, vibrationId, timeoutMs)

vibratorOff_ZeroAmplitude(ptr) ==
    /\ proc = "running"
    /\ IF ptr = NullPtr
       THEN lastCall' = NullCall("off", 0, 0, "void")
       ELSE \E script \in Scripts("setAmplitude", 0, HalInfo) :
                lastCall' = [HalCallRecord("off", 0, 0, script, halCall(script),
                                           FALSE, "void")
                                EXCEPT !.prevOff = PrevOff,
                                       !.fn = "setAmplitude"]
    /\ UNCHANGED <<proc, wrapper, callbacks, issued, notification>>

\* vibratorOff: dispatch hal->off(), discard the result.
vibratorOff(ptr) == VoidCall("off", ptr, 0)

vibratorSetAmplitude(ptr, amplitude) == VoidCall("setAmplitude", ptr, amplitude)

vibratorSetExternalControl(ptr, enabled) ==
    VoidCall("setExternalControl", ptr, enabled)

vibratorPerformEffect(ptr, effect, strength, vibrationId) ==
    TimedCall("performEffect", ptr, vibrationId, <<effect, strength>>)

vibratorPerformComposedEffect(ptr, composition, vibrationId) ==
    TimedCall("performComposedEffect", ptr, vibrationId, composition)

vibratorAlwaysOnEnable_Scheduling(ptr, id, effect, strength) ==
    /\ proc = "running"
    /\ IF ptr = NullPtr
       THEN /\ lastCall' = NullCall("alwaysOnEnable", 0, <<id, effect, strength>>,
                                    "void")
            /\ UNCHANGED callbacks
       ELSE \E script \in Scripts("alwaysOnEnable", <<id, effect, strength>>,
                                  HalInfo) :
                LET r == halCall(script) IN
                /\ lastCall' = HalCallRecord("alwaysOnEnable", 0,
                                             <<id, effect, strength>>, script, r,
                                             TRUE, "void")
                /\ callbacks' = IF isOk(r.result) THEN callbacks \cup {id}
                                ELSE callbacks
    /\ UNCHANGED <<proc, wrapper, issued, notification>>

\* vibratorAlwaysOnEnable, vibratorAlwaysOnDisable: dispatch the HAL function
\* with no callback, discard the result.
vibratorAlwaysOnEnable(ptr, id, effect, strength) ==
    VoidCall("alwaysOnEnable", ptr,
             <<id, effect, strength>>)

vibratorAlwaysOnDisable(ptr, id) == VoidCall("alwaysOnDisable", ptr, id)

ResonantFrequencyOf_Zero(info) == valueOr(info.resonantFrequency, Float(0))

\* info.<field>.valueOr(NAN) for the two frequency values the HAL reports.
ResonantFrequencyOf(info) == valueOr(info.resonantFrequency, NaN)
QFactorOf(info) == valueOr(info.qFactor, NaN)

IntArrayOf_EmptyWhenAbsent(r) ==
    IF isOk(r) THEN JIntArray(r.value) ELSE JIntArray(<<>>)

\* The int array made from an optional list: only when the list is ok.
IntArrayOf(r) == IF isOk(r) THEN JIntArray(r.value) ELSE JNull

CapabilitiesOf_AllWhenAbsent(info) == valueOr(info.capabilities, 63)

\* info.capabilities.valueOr(vibrator::Capabilities::NONE)
CapabilitiesOf(info) == valueOr(info.capabilities, CapabilitiesNone)

\* The VibratorInfo object vibratorGetInfo builds.
VibratorInfoOf(info, vibratorId) ==
    [id |-> vibratorId,
     capabilities |-> CapabilitiesOf(info),
     supportedEffects |-> IntArrayOf(info.supportedEffects),
     supportedPrimitives |-> IntArrayOf(info.supportedPrimitives),
     qFactor |-> QFactorOf(info),
     frequencyMapping |->
         [minFrequencyHz |-> NaN,
          resonantFrequencyHz |-> ResonantFrequencyOf(info),
          frequencyResolutionHz |-> NaN,
          suggestedSafeRangeHz |-> NaN,
          maxAmplitudes |-> JNull]]

vibratorGetInfo(ptr) ==
    /\ proc = "running"
    /\ lastCall' = IF ptr = NullPtr
                   THEN NullCall("getInfo", 0, 0, JNull)
                   ELSE [NullCall("getInfo", 0, 0,
                                  VibratorInfoOf(HalInfo, wrapper.mVibratorId))
                            EXCEPT !.ptr = WrapperPtr]
    /\ UNCHANGED <<proc, wrapper, callbacks, issued, notification>>

\* ------------------------------------------------------------ hwui Mesh

\* sizeof(float): uniform data is laid out in cells of one float.
SizeOfFloat == 4

\* GrDirectContext::DirectContextID(): the id no context has.
InvalidContextID == 0

\* The context pointers updateSkMesh is called with, and their ids.
Contexts == {"nullptr", "contextA", "contextB"}
directContextID(context) == IF context = "contextA" THEN 1 ELSE 2

\* The uniforms of the mesh specification: a float and a 3x3 float matrix.
MeshSpecUniforms ==
    [uScale |-> [offset |-> 0, sizeInBytes |-> SizeOfFloat],
     uMatrix |-> [offset |-> SizeOfFloat, sizeInBytes |-> 9 * SizeOfFloat]]
uniformSize == SizeOfFloat + 9 * SizeOfFloat

\* Names a caller asks for; the specification has no uniform "uMissing".
UniformNames == {"uScale", "uMatrix", "uMissing"}

\* SkMeshSpecification::findUniform: the uniform, or nullptr.
NoVar == [offset |-> -1, sizeInBytes |-> -1]
findUniform(name) ==
    IF name \in DOMAIN MeshSpecUniforms THEN MeshSpecUniforms[name] ELSE NoVar

\* Values assigned: trivially copyable objects of one, two and nine floats,
\* float arrays with a count, and matrices by their get(0..8).
Values == {<<7>>, <<7, 8>>, <<11, 12, 13, 14, 15, 16, 17, 18, 19>>}
Arrays ==
    { [val |-> <<7>>, count |-> 1],
      [val |-> <<11, 12, 13, 14, 15, 16, 17, 18, 19>>, count |-> 9],
      [val |-> <<11, 12, 13, 14, 15, 16, 17, 18, 19>>, count |-> 2],
      [val |-> <<7>>, count |-> -1] }
Matrices == {<<1, 2, 3, 4, 5, 6, 7, 8, 9>>, <<1, 0, 0, 0, 1, 0, 0, 0, 1>>}

\* SkData objects: two can be alive at a time, one held by the builder and
\* one held by the SkMesh.
BufferIds == {1, 2}
NoBuffer == 0
Freed == <<>>

\* SkData::MakeZeroInitialized
MakeZeroInitialized(size) == [i \in 1..(size \div SizeOfFloat) |-> 0]

\* The number of sk_sp references to SkData b, and SkData::unique.
RefCnt(b) ==
    (IF fUniforms = b THEN 1 ELSE 0) + (IF mMesh = b THEN 1 ELSE 0)
unique(b) == RefCnt(b) = 1

\* memcpy(dst + offset, val, Len(val) floats)
memcpy(data, offset, val) ==
    [i \in DOMAIN data |->
        LET j == i - (offset \div SizeOfFloat) IN
        IF j \in 1..Len(val) THEN val[j] ELSE data[i]]

\* The nine floats operator=(const SkMatrix&) stores: the matrix transposed.
TransposedMatrix(val) ==
    <<val[1], val[4], val[7], val[2], val[5], val[8], val[3], val[6], val[9]>>

writableUniformData_InPlace == [fUniforms |-> fUniforms, heap |-> heap]

\* MeshUniformBuilder::writableUniformData: when the SkData has another
\* holder, point fUniforms to a copy of it; the data to write is fUniforms.
writableUniformData ==
    IF ~unique(fUniforms)
    THEN LET b == CHOOSE b \in BufferIds : RefCnt(b) = 0 IN
         [fUniforms |-> b, heap |-> [heap EXCEPT ![b] = heap[fUniforms]]]
    ELSE [fUniforms |-> fUniforms, heap |-> heap]

\* The record of a Mesh or MeshUniformBuilder call; size is the byte size
\* of the value an assignment brings.
MeshCallRecord(op, name, size, wrote, ret) ==
    [op |-> op, name |-> name, size |-> size, wrote |-> wrote, ret |-> ret,
     shared |-> ~unique(fUniforms), context |-> "nullptr", rebuilt |-> FALSE,
     wasDirty |-> mIsDirty, oldGenId |-> mGenerationId,
     genId |-> InvalidContextID]

\* A new Mesh around a new MeshUniformBuilder.
MeshInit ==
    /\ meshProc = "running"
    /\ mIsDirty = TRUE
    /\ mGenerationId = InvalidContextID
    /\ mMesh = NoBuffer
    /\ fUniforms = 1
    /\ heap = (1 :> MakeZeroInitialized(uniformSize)) @@ (2 :> Freed)
    /\ updatedSinceDirty = FALSE
    /\ meshCall = [op |-> "new", name |-> "", size |-> 0, wrote |-> FALSE,
                   ret |-> FALSE,
                   shared |-> FALSE, context |-> "nullptr", rebuilt |-> FALSE,
                   wasDirty |-> TRUE, oldGenId |-> InvalidContextID,
                   genId |-> InvalidContextID]

\* The store of an assignment that passed its checks: val at the uniform's
\* offset in the writable data.
Store(fVar, val) ==
    LET w == writableUniformData IN
    /\ fUniforms' = w.fUniforms
    /\ heap' = [w.heap EXCEPT ![w.fUniforms] = memcpy(@, fVar.offset, val)]

\* LOG_FATAL: aborts in a debug build, compiled out otherwise.
LogFatal == meshProc' \in {"running", "aborted"}

\* MeshUniform::operator=(const T&).  The function has no return statement:
\* after the store, or after the compiled-out log, control flows off the end
\* of a function returning MeshUniform, and the call returns, or traps.
MeshUniform_assign(name, val) ==
    /\ meshProc = "running"
    /\ LET fVar == findUniform(name) IN
       IF fVar = NoVar \/ SizeOfFloat * Len(val) # fVar.sizeInBytes
       THEN /\ meshCall' = MeshCallRecord("assign", name, SizeOfFloat * Len(val),
                                        FALSE, FALSE)
            /\ UNCHANGED <<fUniforms, heap>>
       ELSE /\ meshCall' = MeshCallRecord("assign", name, SizeOfFloat * Len(val),
                                        TRUE, FALSE)
            /\ Store(fVar, val)
    /\ meshProc' \in {"running", "aborted"}
    /\ UNCHANGED <<mIsDirty, mGenerationId, mMesh, updatedSinceDirty>>

\* MeshUniform::operator=(const SkMatrix&)
MeshUniform_assignMatrix(name, val) ==
    /\ meshProc = "running"
    /\ LET fVar == findUniform(name) IN
       IF fVar = NoVar \/ fVar.sizeInBytes # 9 * SizeOfFloat
       THEN /\ LogFatal
            /\ meshCall' = MeshCallRecord("assignMatrix", name, 9 * SizeOfFloat,
                                        FALSE, FALSE)
            /\ UNCHANGED <<fUniforms, heap>>
       ELSE /\ meshCall' = MeshCallRecord("assignMatrix", name, 9 * SizeOfFloat,
                                        TRUE, FALSE)
            /\ Store(fVar, TransposedMatrix(val))
            /\ UNCHANGED meshProc
    /\ UNCHANGED <<mIsDirty, mGenerationId, mMesh, updatedSinceDirty>>

\* MeshUniform::set(const T val[], count) with T = float: false when the
\* uniform is missing or sizeof(T) * count is not its size.
MeshUniform_set(name, val, count) ==
    /\ meshProc = "running"
    /\ LET fVar == findUniform(name) IN
       IF fVar = NoVar \/ SizeOfFloat * count # fVar.sizeInBytes
       THEN /\ LogFatal
            /\ meshCall' = MeshCallRecord("set", name, SizeOfFloat * count,
                                        FALSE, FALSE)
            /\ UNCHANGED <<fUniforms, heap>>
       ELSE /\ meshCall' = MeshCallRecord("set", name, SizeOfFloat * count,
                                        TRUE, TRUE)
            /\ Store(fVar, SubSeq(val, 1, count))
            /\ UNCHANGED meshProc
    /\ UNCHANGED <<mIsDirty, mGenerationId, mMesh, updatedSinceDirty>>

NeedsRebuild_DirtyOnly(genId) == mIsDirty

\* mIsDirty || genId != mGenerationId
NeedsRebuild(genId) == mIsDirty \/ genId # mGenerationId

\* Mesh::updateSkMesh: when dirty or called for another context, make the
\* SkMesh anew around the builder's current uniforms (the SkMesh it replaces
\* drops its reference), clear the flag and record the context id.
updateSkMesh(context) ==
    /\ meshProc = "running"
    /\ LET genId == IF context # "nullptr" THEN directContextID(context)
                    ELSE InvalidContextID
       IN
       /\ IF NeedsRebuild(genId)
          THEN /\ mMesh' = fUniforms
               /\ heap' = [b \in BufferIds |->
                              IF b = mMesh /\ b # fUniforms THEN Freed
                              ELSE heap[b]]
               /\ mIsDirty' = FALSE
               /\ mGenerationId' = genId
          ELSE UNCHANGED <<mMesh, heap, mIsDirty, mGenerationId>>
       /\ meshCall' = [MeshCallRecord("updateSkMesh", "", 0, FALSE, FALSE)
                          EXCEPT !.context = context, !.genId = genId,
                                 !.rebuilt = NeedsRebuild(genId)]
    /\ updatedSinceDirty' = TRUE
    /\ UNCHANGED <<meshProc, fUniforms>>

\* Mesh::getSkMesh: LOG_FATAL_IF(mIsDirty), then the SkMesh as it is.
getSkMesh ==
    /\ meshProc = "running"
    /\ IF mIsDirty THEN LogFatal ELSE UNCHANGED meshProc
    /\ meshCall' = MeshCallRecord("getSkMesh", "", 0, FALSE, FALSE)
    /\ UNCHANGED <<mIsDirty, mGenerationId, mMesh, fUniforms, heap,
                   updatedSinceDirty>>

\* Mesh::markDirty
markDirty ==
    /\ meshProc = "running"
    /\ mIsDirty' = TRUE
    /\ updatedSinceDirty' = FALSE
    /\ meshCall' = MeshCallRecord("markDirty", "", 0, FALSE, FALSE)
    /\ UNCHANGED <<meshProc, mGenerationId, mMesh, fUniforms, heap>>

\* ------------------------------------------------------------ specification

Init == CtlInit /\ MeshInit

\* The controller: every native method, the finalizer and the callbacks,
\* with the Mesh left alone.
Next ==
    \/ \E id \in VibratorIds, managerUp \in BOOLEAN, listenerOk \in BOOLEAN :
           vibratorNativeInit(id, managerUp, listenerOk) /\ UNCHANGED meshVars
    \/ destroyNativeWrapper /\ UNCHANGED meshVars
    \/ \E t \in Tokens : createCallbackRun(t) /\ UNCHANGED meshVars
    \/ \E ptr \in Ptrs : vibratorIsAvailable(ptr) /\ UNCHANGED meshVars
    \/ \E ptr \in Ptrs, d \in Durations, t \in Tokens :
           vibratorOn(ptr, d, t) /\ UNCHANGED meshVars
    \/ \E ptr \in Ptrs : vibratorOff(ptr) /\ UNCHANGED meshVars
    \/ \E ptr \in Ptrs, a \in Amplitudes :
           vibratorSetAmplitude(ptr, a) /\ UNCHANGED meshVars
    \/ \E ptr \in Ptrs, e \in BOOLEAN :
           vibratorSetExternalControl(ptr, e) /\ UNCHANGED meshVars
    \/ \E ptr \in Ptrs, e \in Effects, s \in Strengths, t \in Tokens :
           vibratorPerformEffect(ptr, e, s, t) /\ UNCHANGED meshVars
    \/ \E ptr \in Ptrs, c \in Compositions, t \in Tokens :
           vibratorPerformComposedEffect(ptr, c, t) /\ UNCHANGED meshVars
    \/ \E ptr \in Ptrs, id \in AlwaysOnSlots, e \in Effects, s \in Strengths :
           vibratorAlwaysOnEnable(ptr, id, e, s) /\ UNCHANGED meshVars
    \/ \E ptr \in Ptrs, id \in AlwaysOnSlots :
           vibratorAlwaysOnDisable(ptr, id) /\ UNCHANGED meshVars
    \/ \E ptr \in Ptrs : vibratorGetInfo(ptr) /\ UNCHANGED meshVars

Spec == Init /\ [][Next]_vars

\* The driver or the timer runs every callback it holds.
FairSpec ==
    Spec /\ \A t \in Tokens : WF_vars(createCallbackRun(t) /\ UNCHANGED meshVars)

\* The Mesh: uniform assignments, markDirty, updateSkMesh and getSkMesh in
\* any order, with the controller left alone.
MeshNext ==
    \/ \E name \in UniformNames, val \in Values :
           MeshUniform_assign(name, val) /\ UNCHANGED ctlVars
    \/ \E name \in UniformNames, val \in Matrices :
           MeshUniform_assignMatrix(name, val) /\ UNCHANGED ctlVars
    \/ \E name \in UniformNames, a \in Arrays :
           MeshUniform_set(name, a.val, a.count) /\ UNCHANGED ctlVars
    \/ \E context \in Contexts : updateSkMesh(context) /\ UNCHANGED ctlVars
    \/ getSkMesh /\ UNCHANGED ctlVars
    \/ markDirty /\ UNCHANGED ctlVars

MeshSpec == Init /\ [][MeshNext]_vars

\* ------------------------------------------------------------------ claims

\* The last call went through the null check and was dispatched to the HAL.
Dispatched == lastCall.ptr = WrapperPtr /\ lastCall.trace # <<>>

TimedOps == {"on", "performEffect", "performComposedEffect"}

\* C1: for on, performEffect and performComposedEffect on an initialised
\* controller the value returned is fixed by the final result of the HAL
\* call: the requested duration (on) or the reported duration
\* (performEffect, performComposedEffect) when ok, 0 when unsupported and
\* -1 when failed.
C1_ReturnFollowsEnvelope ==
    (Dispatched /\ lastCall.op \in TimedOps) =>
        lastCall.ret =
            CASE lastCall.result.tag = "ok" ->
                    IF lastCall.op = "on" THEN lastCall.arg
                    ELSE lastCall.result.value
              [] lastCall.result.tag = "unsupported" -> 0
              [] OTHER -> -1

C1_Witness ==
    /\ Dispatched
    /\ lastCall.op = "on"
    /\ isOk(lastCall.result)
    /\ lastCall.ret = 500

\* The driver script of the last call failed transiently k times and then
\* succeeded.
FailsThenSucceeds == Dispatched /\ isOk(lastCall.script.answer)

C3_UnsupportedNotRetried ==
    Dispatched =>
        /\ \A i \in 1..Len(lastCall.trace) :
               lastCall.trace[i] = "unsupported" =>
                   /\ i = Len(lastCall.trace)
                   /\ isUnsupported(lastCall.result)
                   /\ lastCall.op \in TimedOps => lastCall.ret = 0
        /\ (lastCall.script.k = 0 /\ isUnsupported(lastCall.script.answer)) =>
               /\ lastCall.trace = <<"unsupported">>
               /\ lastCall.reconnects = 0

C3_Witness ==
    /\ Dispatched
    /\ lastCall.op = "performComposedEffect"
    /\ lastCall.script.k = 0
    /\ isUnsupported(lastCall.script.answer)
    /\ lastCall.trace = <<"unsupported">>
    /\ lastCall.ret = 0

\* on(a) was immediately followed by on(b), both succeeded, and the driver
\* still holds b's callback.
TurnOnSuperseded(a, b) ==
    /\ b \in callbacks
    /\ Dispatched
    /\ lastCall.op = "on"
    /\ isOk(lastCall.result)
    /\ lastCall.token = b
    /\ lastCall.prevOn = a

\* C4: when on(500, A) is immediately followed by on(300, B) and both
\* succeed, a notification carrying B is eventually delivered, and no
\* callback run, A's late one included, changes the controller.
C4_SupersedingTurnOn ==
    /\ \A a, b \in Tokens :
           (a # b /\ TurnOnSuperseded(a, b))
               ~> (b \notin callbacks /\ notification.token = b)
    /\ [][(\E t \in Tokens : createCallbackRun(t)) => wrapper' = wrapper]_vars

\* C5: every notification delivered carries the vibrator id the controller
\* was constructed with and a token that was passed to on, performEffect or
\* performComposedEffect on that controller.
C5_NotificationTagging ==
    notification # NoNotification =>
        /\ notification.id = wrapper.mVibratorId
        /\ notification.token \in issued

\* C6: performComposedEffect with an empty primitive sequence returns 0 as
\* an ok result and hands no completion callback to the driver.
C6_EmptyCompositionNoCompletion ==
    (lastCall.op = "performComposedEffect" /\ lastCall.ptr = WrapperPtr
        /\ lastCall.arg = <<>>) =>
        /\ lastCall.ret = 0
        /\ ~lastCall.callback

\* C7: setAmplitude with a value outside (0, 1] is rejected before any
\* driver call is attempted.
C7_AmplitudePrecondition ==
    (lastCall.op = "setAmplitude" /\ lastCall.ptr = WrapperPtr
        /\ ~(0 < lastCall.arg /\ lastCall.arg <= 10)) =>
        lastCall.trace = <<>>

\* The effect of the last performEffect call is in the supported set the
\* driver info reports.
EffectSupported ==
    /\ isOk(HalInfo.supportedEffects)
    /\ lastCall.arg[1] \in Range(HalInfo.supportedEffects.value)

EffectNotSupported ==
    /\ isOk(HalInfo.supportedEffects)
    /\ lastCall.arg[1] \notin Range(HalInfo.supportedEffects.value)

\* C8: for an effect outside the reported supported set, performEffect
\* returns unsupported (0) and never failed (-1), whatever the state of the
\* driver connection.
C8_UnsupportedPairNeverFailed ==
    (lastCall.op = "performEffect" /\ lastCall.ptr = WrapperPtr
        /\ EffectNotSupported) =>
        /\ isUnsupported(lastCall.result)
        /\ lastCall.ret = 0

C10_AbsentFrequencyData ==
    (lastCall.op = "getInfo" /\ lastCall.ptr = WrapperPtr) =>
        LET f == lastCall.ret.frequencyMapping IN
        /\ f.minFrequencyHz.isNaN
        /\ f.frequencyResolutionHz.isNaN
        /\ f.suggestedSafeRangeHz.isNaN
        /\ f.maxAmplitudes.isNull
        /\ ~isOk(HalInfo.resonantFrequency) => f.resonantFrequencyHz.isNaN
        /\ ~isOk(HalInfo.qFactor) => lastCall.ret.qFactor.isNaN

C10_Witness ==
    /\ lastCall.op = "getInfo"
    /\ lastCall.ptr = WrapperPtr
    /\ ~isOk(HalInfo.resonantFrequency)
    /\ ~isOk(HalInfo.qFactor)
    /\ lastCall.ret.frequencyMapping.resonantFrequencyHz.isNaN
    /\ lastCall.ret.qFactor.isNaN

\* The last call was getInfo on the live wrapper.
GotInfo == lastCall.op = "getInfo" /\ lastCall.ptr = WrapperPtr

\* C11 as stated: in the info getInfo returns, a supported-effect list or a
\* supported-primitive list the driver did not report is an empty sequence,
\* and a frequency the driver did not report is not-a-number.
C11_AbsentListsEmpty ==
    GotInfo =>
        /\ ~isOk(HalInfo.supportedEffects) =>
               lastCall.ret.supportedEffects = JIntArray(<<>>)
        /\ ~isOk(HalInfo.supportedPrimitives) =>
               lastCall.ret.supportedPrimitives = JIntArray(<<>>)
        /\ ~isOk(HalInfo.resonantFrequency) =>
               lastCall.ret.frequencyMapping.resonantFrequencyHz.isNaN

\* C11 amended: a list the driver did not report is a null array reference,
\* no sequence at all, a list it reported is an array of the reported
\* elements, and a frequency it did not report is not-a-number.
C11_AbsentListsNull ==
    GotInfo =>
        /\ lastCall.ret.supportedEffects =
               IF isOk(HalInfo.supportedEffects)
               THEN JIntArray(HalInfo.supportedEffects.value) ELSE JNull
        /\ lastCall.ret.supportedPrimitives =
               IF isOk(HalInfo.supportedPrimitives)
               THEN JIntArray(HalInfo.supportedPrimitives.value) ELSE JNull
        /\ ~isOk(HalInfo.resonantFrequency) =>
               lastCall.ret.frequencyMapping.resonantFrequencyHz.isNaN

C11_Witness ==
    /\ GotInfo
    /\ ~isOk(HalInfo.supportedPrimitives)
    /\ isOk(HalInfo.supportedEffects)
    /\ lastCall.ret.supportedPrimitives.isNull
    /\ lastCall.ret.supportedEffects.elems = <<5>>

\* Bit b of the capability bit-set x.
HasBit(x, b) == (x \div (2 ^ b)) % 2 = 1
CapabilityBits == 0..5

\* C12: every capability bit in the info getInfo returns is a bit the
\* driver reports: the bit-set equals the driver's when the driver reports
\* one and is empty when it reports none.
C12_CapabilityBits ==
    GotInfo =>
        /\ \A b \in CapabilityBits :
               HasBit(lastCall.ret.capabilities, b) =>
                   /\ isOk(HalInfo.capabilities)
                   /\ HasBit(HalInfo.capabilities.value, b)
        /\ isOk(HalInfo.capabilities) =>
               lastCall.ret.capabilities = HalInfo.capabilities.value
        /\ ~isOk(HalInfo.capabilities) =>
               lastCall.ret.capabilities = CapabilitiesNone

C12_Witness ==
    /\ GotInfo
    /\ isOk(HalInfo.capabilities)
    /\ lastCall.ret.capabilities = 39
    /\ HasBit(lastCall.ret.capabilities, 5)

C12_WitnessAbsent ==
    /\ GotInfo
    /\ ~isOk(HalInfo.capabilities)
    /\ lastCall.ret.capabilities = CapabilitiesNone

\* The step is a facade call of one of the operations in ops.
CallStep(ops) ==
    /\ lastCall'.op \in ops
    /\ lastCall'.op # lastCall.op \/ lastCall' # lastCall

\* The actuator after the HAL function of the last call, started from a.
AfterLastCall(a) ==
    DriverStep(a, lastCall.fn, lastCall.arg, lastCall.result)

\* The driver, reached within the retry bound, accepted the last call.
DriverAccepts ==
    lastCall.script.k <= MAX_RETRIES /\ isOk(lastCall.script.answer)

\* The last call was off on the live wrapper, right after a successful
\* off: the actuator was already off.
OffWhenOff ==
    lastCall.op = "off" /\ lastCall.ptr = WrapperPtr /\ lastCall.prevOff

C14_NoDriverAbortsConstruction ==
    /\ [][\A id \in VibratorIds, managerUp \in BOOLEAN, listenerOk \in BOOLEAN :
              ((~managerUp \/ id \notin DOMAIN Device)
                  /\ vibratorNativeInit(id, managerUp, listenerOk)) =>
                  /\ proc' = "fatal: no HAL"
                  /\ wrapper' = NoWrapper
                  /\ ~wrapper'.halInit
                  /\ lastCall' = lastCall]_vars
    /\ [][proc # "running" => UNCHANGED vars]_vars
    /\ [](wrapper.state # "none" =>
              wrapper.mVibratorId \in DOMAIN Device /\ wrapper.halInit)

C14_Witness ==
    /\ proc = "fatal: no HAL"
    /\ wrapper = NoWrapper
    /\ lastCall.ptr = NullPtr

\* C15: isAvailable is a probe only: whatever ping returns, no actuator
\* state (vibrating, amplitude, external control, always-on slots) is
\* changed by it, no callback is created, and the callbacks the driver
\* holds are the same before and after.
C15_IsAvailableProbeOnly ==
    /\ [](lastCall.op = "ping" =>
              /\ ~lastCall.callback
              /\ \A a \in ActuatorStates : AfterLastCall(a) = a)
    /\ [][CallStep({"ping"}) =>
              UNCHANGED <<proc, wrapper, callbacks, issued, notification>>]_vars

C15_Witness ==
    /\ lastCall.op = "ping"
    /\ Dispatched
    /\ lastCall.ret = TRUE
    /\ callbacks = Tokens

\* C16: alwaysOnEnable and alwaysOnDisable schedule no completion: they
\* create no callback, the callbacks the driver holds are the same before
\* and after, no notification goes out in the step, and every callback the
\* driver holds, hence every later notification, stems from a token passed
\* to on, performEffect or performComposedEffect.
C16_AlwaysOnNoCompletion ==
    /\ [](lastCall.op \in {"alwaysOnEnable", "alwaysOnDisable"} =>
              ~lastCall.callback)
    /\ [](callbacks \subseteq issued)
    /\ [][CallStep({"alwaysOnEnable", "alwaysOnDisable"}) =>
              UNCHANGED <<callbacks, issued, notification>>]_vars

C16_Witness ==
    /\ lastCall.op = "alwaysOnEnable"
    /\ Dispatched
    /\ isOk(lastCall.result)
    /\ ~lastCall.callback
    /\ callbacks = {}
    /\ notification = NoNotification

\* C17: a completion callback never runs against a destroyed controller:
\* whenever the driver or a timer runs a callback created by on,
\* performEffect or performComposedEffect, the wrapper whose vibrator id and
\* listener it reads has not been deleted.
C17_CallbackNeverAfterDestroy ==
    [][\A t \in Tokens : createCallbackRun(t) => wrapper.state = "live"]_vars

VoidOps ==
    {"off", "setAmplitude", "setExternalControl", "alwaysOnEnable",
     "alwaysOnDisable"}

\* The last call was a facade operation invoked with the null pointer.
NullHandleCall ==
    lastCall.ptr = NullPtr /\ lastCall.op \in TimedOps \cup VoidOps \cup {"ping", "getInfo"}

\* C18: a facade operation invoked with the null pointer makes no HAL call,
\* creates no completion callback and returns its failure value: -1 for on,
\* performEffect and performComposedEffect, false for isAvailable, null for
\* getInfo, nothing for the others; no callback is handed to the driver and
\* no notification goes out in that step.
C18_NullHandle ==
    /\ [](NullHandleCall =>
              /\ lastCall.trace = <<>>
              /\ lastCall.reconnects = 0
              /\ lastCall.result = NoResult
              /\ ~lastCall.callback
              /\ CASE lastCall.op \in TimedOps -> lastCall.ret = -1
                    [] lastCall.op = "ping" -> lastCall.ret = FALSE
                    [] lastCall.op = "getInfo" -> lastCall.ret = JNull
                    [] OTHER -> lastCall.ret = "void")
    /\ [][(lastCall' # lastCall /\ lastCall'.ptr = NullPtr) =>
              UNCHANGED <<proc, wrapper, callbacks, issued, notification>>]_vars

C18_Witness ==
    /\ NullHandleCall
    /\ wrapper.state = "live"
    /\ lastCall.op = "performComposedEffect"
    /\ lastCall.arg # <<>>
    /\ lastCall.ret = -1
    /\ lastCall.token \notin issued

\* C19: updateSkMesh makes the SkMesh anew exactly when the mesh is dirty
\* or the id of the context passed (the invalid id for no context) differs
\* from the recorded one, and nothing else makes it anew; right after every
\* updateSkMesh the mesh is not dirty and the recorded id is that of the
\* context passed; a new mesh is dirty; and the mesh is not dirty, so that
\* getSkMesh's check passes, exactly when updateSkMesh ran since
\* construction or the last markDirty.
C19_RebuildWhenDirtyOrNewContext ==
    /\ [](meshCall.op = "updateSkMesh" =>
              /\ meshCall.genId = IF meshCall.context = "nullptr"
                                  THEN InvalidContextID
                                  ELSE directContextID(meshCall.context)
              /\ meshCall.rebuilt <=>
                     (meshCall.wasDirty \/ meshCall.genId # meshCall.oldGenId)
              /\ meshCall.rebuilt => mMesh = fUniforms
              /\ ~mIsDirty
              /\ mGenerationId = meshCall.genId)
    /\ [](meshCall.op = "new" => mIsDirty)
    /\ [](~mIsDirty <=> updatedSinceDirty)
    /\ [][(mMesh' # mMesh \/ mGenerationId' # mGenerationId
              \/ (mIsDirty /\ ~mIsDirty')) =>
              /\ meshCall'.op = "updateSkMesh"
              /\ mIsDirty \/ meshCall'.genId # mGenerationId]_vars

C19_Witness ==
    /\ meshCall.op = "updateSkMesh"
    /\ ~meshCall.wasDirty
    /\ meshCall.oldGenId = directContextID("contextA")
    /\ meshCall.context = "contextB"
    /\ meshCall.rebuilt
    /\ mGenerationId = directContextID("contextB")

AssignOps == {"assign", "assignMatrix", "set"}

\* The last assignment named a missing uniform or brought a value whose
\* byte size is not the uniform's.
AssignRejected ==
    /\ meshCall.op \in AssignOps
    /\ \/ findUniform(meshCall.name) = NoVar
       \/ meshCall.size # findUniform(meshCall.name).sizeInBytes

\* C20: the builder never writes into uniform data that has another holder:
\* the data the SkMesh holds keeps its contents for as long as the SkMesh
\* holds it, an assignment changes only the data fUniforms points to after
\* it, which then has no other holder, and an assignment to a missing
\* uniform or with another byte size than the uniform's writes nothing and
\* leaves fUniforms as it is.
C20_CopyOnWrite ==
    /\ [][(mMesh' = mMesh /\ mMesh # NoBuffer) =>
              heap'[mMesh] = heap[mMesh]]_vars
    /\ [][(meshCall'.op \in AssignOps /\ heap' # heap) =>
              /\ \A b \in BufferIds \ {fUniforms'} : heap'[b] = heap[b]
              /\ fUniforms' # mMesh']_vars
    /\ []((meshCall.op \in AssignOps /\ meshCall.wrote) =>
              /\ ~AssignRejected
              /\ fUniforms # mMesh)
    /\ [](AssignRejected => ~meshCall.wrote)
    /\ [][(meshCall'.op \in AssignOps /\ ~meshCall'.wrote) =>
              UNCHANGED <<heap, fUniforms, mMesh>>]_vars

C20_Witness ==
    /\ meshCall.op = "assignMatrix"
    /\ meshCall.wrote
    /\ meshCall.shared
    /\ mMesh # NoBuffer
    /\ fUniforms # mMesh
    /\ heap[mMesh][1] = 7
    /\ heap[mMesh][3] = 0
    /\ heap[fUniforms][3] = 4

C20_WitnessRejected ==
    /\ AssignRejected
    /\ meshCall.op = "set"
    /\ meshCall.name = "uMatrix"
    /\ ~meshCall.ret
    /\ meshProc = "running"

=============================================================================
